---------------------------- MODULE Spec2Model ----------------------------
(***************************************************************************)
(* A model of dosbox-staging's SoftLimiter (include/soft_limiter.h).       *)
(*                                                                         *)
(* Number representation.  The limiter computes in `float`.  The model     *)
(* keeps every float quantity as an exact rational held in integers:       *)
(*   - input samples are counted in halves (SampleDen = 2), so that 2*x    *)
(*     stands for the float x and fractional samples exist;                *)
(*   - prescale is counted in halves (PreDen = 2);                         *)
(*   - amplitudes that the release step makes fractional (peak, local)     *)
(*     are counted in thousandths (FixedOne = 1000);                       *)
(*   - tail and the output samples are integers, as in the code;           *)
(*   - a quotient that is only stored (limit_scale) is kept as the pair    *)
(*     <<numerator, denominator>>.                                         *)
(* Products and quotients are evaluated exactly (MulDivMod), so the model  *)
(* is the limiter computed in real arithmetic; float rounding of the       *)
(* intermediate results is not modelled.                                   *)
(***************************************************************************)
EXTENDS Integers, Sequences, FiniteSets, TLC

\* ------------------------------------------------------------------ bounds
\* template parameter array_frames of the instance under test
ArrayFrames == 4
\* Apply calls a run may make: under Spec and SpecWide, under SpecRelease,
\* under SpecLong
MaxCalls == 2
MaxReleaseCalls == 4
MaxLongCalls == 2

\* --------------------------------------------------------------- constants
upper_bound == 32767
lower_bound == -32768
\* 2^16: the width of uint16_t (req_frames, samples)
Uint16Mod == 65536
\* delta_db = 0.002709201f, in units of 10^-9
delta_db_e9 == 2709201

FixedOne == 1000
SampleDen == 2
PreDen == 2

Capacity == 2 * ArrayFrames
Idx == 0 .. (Capacity - 1)
LEFT == 0
RIGHT == 1

\* --------------------------------------------------------------- arithmetic
Abs(x) == IF x < 0 THEN -x ELSE x

\* the largest value a 32-bit signed integer holds: 2^31 - 1
MaxInt == 2147483647

\* <<quotient, remainder>> of a*b by c for a, b >= 0 and c > 0.  Where a*b
\* would leave 32 bits it is computed over the base-4 digits of a, so that no
\* intermediate value does (needs 7*c <= MaxInt).
RECURSIVE MulDivMod(_, _, _)
MulDivMod(a, b, c) ==
    LET Shift(h, t) == <<4 * h[1] + (a % 4) * (b \div c) + (t \div c), t % c>>
        Digit(h) == Shift(h, 4 * h[2] + (a % 4) * (b % c))
    IN  IF a = 0 \/ b = 0 THEN <<0, 0>>
        ELSE IF a <= MaxInt \div b THEN <<(a * b) \div c, (a * b) % c>>
        ELSE Digit(MulDivMod(a \div 4, b, c))

\* The rational s * a * b / c (s the sign, a, b >= 0, c > 0) plus the integer
\* add, as [lo |-> its floor, exact |-> whether it is an integer].
Affine(add, s, a, b, c) ==
    LET Sum(qr) ==
            IF qr[2] = 0
            THEN [lo |-> add + s * qr[1], exact |-> TRUE]
            ELSE [lo |-> IF s >= 0 THEN add + qr[1] ELSE add - qr[1] - 1,
                  exact |-> FALSE]
    IN  Sum(MulDivMod(a, b, c))

\* truncation toward zero of a value held as [lo, exact]
Trunc(v) == IF v.lo >= 0 \/ v.exact THEN v.lo ELSE v.lo + 1

Sgn(x) == IF x < 0 THEN -1 ELSE 1

\* -------------------------------------------------------------------- state
VARIABLES
    out,             \* out_array_t out: int16_t per interleaved sample
    prescale,        \* const AudioFrame &prescale, in halves
    limit_scale,     \* AudioFrame limit_scale, each side a quotient <<num, den>>
    peak,            \* AudioFrame peak, in thousandths
    tail,            \* AudioFrame tail (always the float of an int16_t)
    peak_pos_left,   \* iterator into the input block, as an index; Null = nullptr
    peak_pos_right,
    limited_ms,
    non_limited_ms,
    halted,          \* "no", or how the process ended: "assert", "segv"
    garbage,         \* the indeterminate value the constructor left in out
    calls,           \* Apply calls made so far in this run
    needed,          \* Apply calls since Reset/construction: [limited, other]
    loudest,         \* the largest |sample| of the blocks handed to Apply, per side
    last,            \* the last operation and what it read and wrote
    log,             \* the LOG_MSG lines of the last PrintStats call
    files,           \* the paths that exist in the filesystem
    given_path,      \* the argument of the last to_posix_path call
    posix_path       \* what that call returned

\* what the path functions of misc/fs_utils.cpp read and yield
fsvars == <<files, given_path, posix_path>>

vars == <<out, prescale, limit_scale, peak, tail, peak_pos_left, peak_pos_right,
          limited_ms, non_limited_ms, halted, garbage, calls, needed, loudest,
          last, log, files, given_path, posix_path>>

Null == -1

\* values an uninitialised int16_t of out may hold
Garbage == {0, 12345}
\* what an out-of-range float -> int16_t conversion may yield
CastOutcomes == {"wrap", "saturate"}
\* what reading out[] beyond its end may yield: a value, or a fault
WildReads == {0, lower_bound}
\* the prescale frames the mixer may hand the constructor: 1.0/1.0, 0.5/0.5, 2.0/1.0
Prescales == {[left |-> 2, right |-> 2], [left |-> 1, right |-> 1],
              [left |-> 4, right |-> 2]}

NotWritten == [w |-> FALSE, lo |-> 0, exact |-> TRUE, by |-> Null]
NoCall == [op |-> "none", in |-> [i \in Idx |-> 0], frames |-> 0, ub |-> "wrap",
           adj |-> [i \in Idx |-> NotWritten],
           branch |-> [left |-> "none", right |-> "none"],
           local |-> [left |-> 0, right |-> 0],
           pos |-> [left |-> Null, right |-> Null],
           add |-> [left |-> 0, right |-> 0],
           after_reset |-> FALSE]

\* ------------------------------------------------------------ int16_t casts
InInt16(t) == lower_bound <= t /\ t <= upper_bound
Wrap16(t) == ((t - lower_bound) % Uint16Mod) + lower_bound
Sat16(t) == IF t > upper_bound THEN upper_bound
            ELSE IF t < lower_bound THEN lower_bound ELSE t
\* static_cast<int16_t>(adjusted): truncation when the truncated value fits,
\* undefined otherwise (ub picks what the build does)
CastInt16(v, ub) ==
    LET t == Trunc(v)
    IN  IF InInt16(t) THEN t
        ELSE IF ub = "wrap" THEN Wrap16(t) ELSE Sat16(t)

\* ---------------------------------------------------------------- ScaleSide
\* o = [out, adj, side]: the output block, the values written to it before the
\* cast, and the side TriageSignal is working for.
RECURSIVE ScaleSide(_, _, _, _, _, _, _, _)
ScaleSide(in, o, in_pos, in_pos_last, out_pos, poly_add, poly_mult, ub) ==
    LET \* *out_pos = static_cast<int16_t>(adjusted)
        Store(adjusted) ==
            [o EXCEPT !.out[out_pos] = CastInt16(adjusted, ub),
                      !.adj[out_pos] = [w |-> TRUE, lo |-> adjusted.lo,
                                        exact |-> adjusted.exact, by |-> o.side]]
    IN  IF in_pos > in_pos_last THEN o
        ELSE ScaleSide(in,
                       Store(Affine(poly_add, Sgn(in[in_pos]), Abs(in[in_pos]),
                                    poly_mult[1], poly_mult[2] * SampleDen)),
                       in_pos + 2, in_pos_last, out_pos + 2, poly_add, poly_mult, ub)

\* ------------------------------------------------------------- TriageSignal
\* local *= pre, in thousandths (local_raw in halves, pre in halves)
Prescaled(local_raw, pre) == local_raw * pre * (FixedOne \div (SampleDen * PreDen))

\* a test for a new peak that forgets the bound
IsLouder(local, existing) == local > existing

\* if (local > existing && local > upper_bound), in thousandths
IsNewPeak(local, existing) == local > existing /\ local > upper_bound * FixedOne

TriageSignal(in, o0, side, local_raw, last_pos, pre, existing, add, scale, ub) ==
    LET local == Prescaled(local_raw, pre)
        o == [o0 EXCEPT !.side = side]
        bound == upper_bound * FixedOne
    IN  IF IsNewPeak(local, existing)
        THEN LET mult == <<(upper_bound - add) * FixedOne, local - add * FixedOne>>
                 sc == <<bound, local>>
             IN  [o |-> ScaleSide(in,
                                  ScaleSide(in, o, side, last_pos, side, add, mult, ub),
                                  last_pos + side + 2, Capacity - (side + 2),
                                  last_pos + side + 2, 0, sc, ub),
                  existing |-> local, scale |-> sc, branch |-> "new_peak",
                  local |-> local]
        ELSE IF existing > bound
        THEN LET sc == <<bound, existing>>
             IN  [o |-> ScaleSide(in, o, side, Capacity - (side + 2), side, 0, sc, ub),
                  existing |-> existing, scale |-> sc, branch |-> "still_over",
                  local |-> local]
        ELSE [o |-> ScaleSide(in, o, side, Capacity - (side + 2), side, 0, <<1, 1>>, ub),
              existing |-> existing, scale |-> scale, branch |-> "pass",
              local |-> local]

\* ---------------------------------------------------------------- FindPeaks
\* a test that lets a later sample of the same magnitude take the peak
ReachesPeak(val, local_peak) == val >= local_peak

\* if (val_left > local_peak.left), and the same on the right
ExceedsPeak(val, local_peak) == val > local_peak

\* the scanning loop; s = [left, right, pos_left, pos_right]
RECURSIVE FindPeaksScan(_, _, _, _)
FindPeaksScan(in, pos, pos_end, s) ==
    IF pos >= pos_end THEN s
    ELSE LET val_left == Abs(in[pos])
             s1 == IF ExceedsPeak(val_left, s.left)
                   THEN [s EXCEPT !.left = val_left, !.pos_left = pos] ELSE s
             val_right == Abs(in[pos + 1])
             s2 == IF ExceedsPeak(val_right, s1.right)
                   THEN [s1 EXCEPT !.right = val_right, !.pos_right = pos + 1] ELSE s1
         IN  FindPeaksScan(in, pos + 2, pos_end, s2)

\* me is the limiter object: a record of its data members.  The result is me
\* after FindPeaks(in, samples), with what the call did.
FindPeaks(me, in, samples, ub) ==
    LET Done(s, l, r) ==
            [me |-> [me EXCEPT !.out = r.o.out,
                               !.peak = [left |-> l.existing, right |-> r.existing],
                               !.limit_scale = [left |-> l.scale, right |-> r.scale],
                               !.peak_pos_left = s.pos_left,
                               !.peak_pos_right = s.pos_right],
             adj |-> r.o.adj,
             branch |-> [left |-> l.branch, right |-> r.branch],
             local |-> [left |-> l.local, right |-> r.local]]
        Right(s, l) ==
            Done(s, l, TriageSignal(in, l.o, RIGHT, s.right, s.pos_right,
                                    me.prescale.right, me.peak.right, me.tail.right,
                                    me.limit_scale.right, ub))
        Left(s) ==
            Right(s, TriageSignal(in, [out |-> me.out,
                                       adj |-> [i \in Idx |-> NotWritten],
                                       side |-> LEFT],
                                  LEFT, s.left, s.pos_left,
                                  me.prescale.left, me.peak.left, me.tail.left,
                                  me.limit_scale.left, ub))
    IN  Left(FindPeaksScan(in, 0, samples,
                           [left |-> 0, right |-> 0,
                            pos_left |-> me.peak_pos_left,
                            pos_right |-> me.peak_pos_right]))

\* ------------------------------------------------------------ SaveTailFrame
\* out[offset] and out[offset + 1] lie beyond the array
TailOutOfBounds(req_frames) ==
    req_frames # 0 /\ (req_frames - 1) * 2 + 1 > Capacity - 1

\* a SaveTailFrame that records the first frame of the block
SaveHeadFrame(me, req_frames, wild) ==
    IF req_frames # 0
    THEN [me EXCEPT !.tail = [left |-> me.out[0], right |-> me.out[1]]]
    ELSE [me EXCEPT !.tail = [left |-> 0, right |-> 0]]

\* wild = what the two reads yield when they are out of bounds
SaveTailFrame(me, req_frames, wild) ==
    IF req_frames # 0
    THEN LET offset == (req_frames - 1) * 2
         IN  IF TailOutOfBounds(req_frames)
             THEN [me EXCEPT !.tail = wild]
             ELSE [me EXCEPT !.tail = [left |-> me.out[offset],
                                       right |-> me.out[offset + 1]]]
    ELSE [me EXCEPT !.tail = [left |-> 0, right |-> 0]]

\* ------------------------------------------------------------------ Release
\* release_amplitude = upper_bound * delta_db, in thousandths
release_amplitude == MulDivMod(upper_bound, delta_db_e9, 1000000)[1]

\* a release step that forgets the test against upper_bound
ReleasedAlways(p) == p - release_amplitude

\* if (peak > upper_bound) peak -= release_amplitude
Released(p) == IF p > upper_bound * FixedOne THEN p - release_amplitude ELSE p

Release(me) ==
    [me EXCEPT !.limited_ms = me.limited_ms + 1,
               !.peak = [left |-> Released(me.peak.left),
                         right |-> Released(me.peak.right)]]

\* -------------------------------------------------------------------- Reset
\* a Reset that clears the tail as well
ResetWithTail(me) ==
    [me EXCEPT !.peak = [left |-> FixedOne, right |-> FixedOne],
               !.tail = [left |-> 0, right |-> 0],
               !.limited_ms = 0,
               !.non_limited_ms = 0]

Reset(me) ==
    [me EXCEPT !.peak = [left |-> FixedOne, right |-> FixedOne],
               !.limited_ms = 0,
               !.non_limited_ms = 0]

\* -------------------------------------------------------------------- Apply
\* const uint16_t samples = req_frames * 2
Samples(req_frames) == (req_frames * 2) % Uint16Mod

\* assert(samples <= in.size())
ApplyAccepts(req_frames) == Samples(req_frames) <= Capacity

\* me after an accepted Apply(in, req_frames), with what the call did
\* f = FindPeaks's result: SaveTailFrame(req_frames); Release();
AfterPeaks(f, req_frames, wild) ==
    [f EXCEPT !.me = Release(SaveTailFrame(f.me, req_frames, wild))]

ApplyBody(me, in, req_frames, ub, wild) ==
    AfterPeaks(FindPeaks(me, in, Samples(req_frames), ub), req_frames, wild)

\* ------------------------------------------------------------- construction
\* SoftLimiter(name, scale): the member initialisers; out is not initialised
Construct(scale, g) ==
    [out |-> [i \in Idx |-> g],
     prescale |-> scale,
     limit_scale |-> [left |-> <<1, 1>>, right |-> <<1, 1>>],
     peak |-> [left |-> FixedOne, right |-> FixedOne],
     tail |-> [left |-> 0, right |-> 0],
     peak_pos_left |-> Null,
     peak_pos_right |-> Null,
     limited_ms |-> 0,
     non_limited_ms |-> 0]

\* the limiter object as the state holds it
Me == [out |-> out, prescale |-> prescale, limit_scale |-> limit_scale,
       peak |-> peak, tail |-> tail,
       peak_pos_left |-> peak_pos_left, peak_pos_right |-> peak_pos_right,
       limited_ms |-> limited_ms, non_limited_ms |-> non_limited_ms]

\* the state takes the fields of m
Becomes(m) ==
    /\ out' = m.out
    /\ prescale' = m.prescale
    /\ limit_scale' = m.limit_scale
    /\ peak' = m.peak
    /\ tail' = m.tail
    /\ peak_pos_left' = m.peak_pos_left
    /\ peak_pos_right' = m.peak_pos_right
    /\ limited_ms' = m.limited_ms
    /\ non_limited_ms' = m.non_limited_ms

\* --------------------------------------------------------------- PrintStats
ms_per_minute == 60000
Max(a, b) == IF a >= b THEN a ELSE b
Min(a, b) == IF a <= b THEN a ELSE b

\* a * b / c rounded to the nearest integer, ties to even: what "%.0f" prints
RoundDiv(a, b, c) ==
    LET Nearest(qr) == IF 2 * qr[2] > c \/ (2 * qr[2] = c /\ qr[1] % 2 = 1)
                       THEN qr[1] + 1 ELSE qr[1]
    IN  Nearest(MulDivMod(a, b, c))

Line(msg, args) == [msg |-> msg, args |-> args]

\* a gate that also turns away exactly half a minute
TooShortOrEqual(ms_total) == 2 * ms_total <= ms_per_minute

\* minutes_total < 0.5, minutes_total being ms_total / ms_per_minute
TooShort(ms_total) == 2 * ms_total < ms_per_minute

\* The LOG_MSG lines PrintStats() emits, in order.  The numbers are the printed
\* ones: "%.0f" as integers, "%.1f" in tenths, "%.2f" in hundredths.
PrintStats(me) ==
    LET ms_total == me.limited_ms + me.non_limited_ms
        bound == upper_bound * FixedOne
        peak_sample == Max(me.peak.left, me.peak.right)
        five_percent_of_max == bound \div 20
        \* peak_ratio = capped / bound
        capped == Min(peak_sample, bound)
        scale == Max(me.prescale.left, me.prescale.right)
        peak_line == Line("peak", <<RoundDiv(100, capped, bound)>>)
        \* peak_ratio / scale < 0.6
        louder == IF 5 * PreDen * capped < 3 * scale * bound
                  THEN <<Line("louder", <<RoundDiv(100 * scale, bound, PreDen * capped)>>)>>
                  ELSE <<>>
        \* time_ratio = limited_ms / (ms_total + 1) > 0.2
        quieter == IF 5 * me.limited_ms > ms_total + 1
                   THEN <<Line("quieter",
                               <<RoundDiv(1000, me.limited_ms, ms_total + 1),
                                 RoundDiv(100, me.limited_ms, ms_per_minute),
                                 RoundDiv(100, ms_total, ms_per_minute),
                                 RoundDiv(100 * scale, 2 * (ms_total + 1) - me.limited_ms,
                                          2 * PreDen * (ms_total + 1))>>)>>
                   ELSE <<>>
    IN  IF TooShort(ms_total) THEN <<>>
        ELSE IF peak_sample < five_percent_of_max THEN <<>>
        ELSE <<peak_line>> \o louder \o quieter

\* ------------------------------------------------------------------ actions
\* no Apply since the last Reset
JustReset == last.op = "Reset" \/ (last.op = "PrintStats" /\ last.after_reset)

NeedsLimiting(branch) ==
    branch.left \in {"new_peak", "still_over"} \/ branch.right \in {"new_peak", "still_over"}

\* the largest |sample| of side in the block in
BlockPeak(in, side) ==
    LET vals == {Abs(in[i]) : i \in {j \in Idx : j % 2 = side}}
    IN  CHOOSE m \in vals : \A v \in vals : v <= m

Louder(l, in) == [left |-> Max(l.left, BlockPeak(in, LEFT)),
                  right |-> Max(l.right, BlockPeak(in, RIGHT))]

\* some value written before the cast does not fit int16_t
CastOverflows(adj) == \E i \in Idx : adj[i].w /\ ~InInt16(Trunc(adj[i]))

Called(in, req_frames) ==
    [NoCall EXCEPT !.op = "Apply", !.in = in, !.frames = req_frames,
                   !.add = tail, !.after_reset = JustReset]

\* assert(samples <= in.size()) fails: the process aborts
ApplyRejected(in, req_frames) ==
    /\ ~ApplyAccepts(req_frames)
    /\ halted' = "assert"
    /\ last' = Called(in, req_frames)
    /\ calls' = calls + 1
    /\ log' = <<>>
    /\ UNCHANGED <<out, prescale, limit_scale, peak, tail, peak_pos_left,
                   peak_pos_right, limited_ms, non_limited_ms, garbage, needed,
                   loudest>>

\* the call runs to its return
ApplyReturns(in, req_frames) ==
    /\ ApplyAccepts(req_frames)
    /\ \E f0 \in {FindPeaks(Me, in, Samples(req_frames), "wrap")} :
       \E ub \in IF CastOverflows(f0.adj) THEN CastOutcomes ELSE {"wrap"} :
       \E wl, wr \in IF TailOutOfBounds(req_frames) THEN WildReads ELSE {0} :
       \E f \in {IF ub = "wrap" THEN f0 ELSE FindPeaks(Me, in, Samples(req_frames), ub)} :
       \E a \in {AfterPeaks(f, req_frames, [left |-> wl, right |-> wr])} :
              /\ Becomes(a.me)
              /\ last' = [Called(in, req_frames) EXCEPT
                            !.ub = ub, !.adj = a.adj, !.branch = a.branch,
                            !.local = a.local,
                            !.pos = [left |-> a.me.peak_pos_left,
                                     right |-> a.me.peak_pos_right]]
              /\ needed' = IF NeedsLimiting(a.branch)
                           THEN [needed EXCEPT !.limited = @ + 1]
                           ELSE [needed EXCEPT !.other = @ + 1]
    /\ loudest' = Louder(loudest, in)
    /\ halted' = "no"
    /\ calls' = calls + 1
    /\ log' = <<>>
    /\ UNCHANGED garbage

\* SaveTailFrame reads beyond out and the read faults
ApplyFaults(in, req_frames) ==
    /\ ApplyAccepts(req_frames)
    /\ TailOutOfBounds(req_frames)
    /\ \E ub \in CastOutcomes :
       \E f \in {FindPeaks(Me, in, Samples(req_frames), ub)} :
              /\ Becomes(f.me)
              /\ last' = [Called(in, req_frames) EXCEPT
                            !.ub = ub, !.adj = f.adj, !.branch = f.branch,
                            !.local = f.local]
    /\ loudest' = Louder(loudest, in)
    /\ halted' = "segv"
    /\ calls' = calls + 1
    /\ log' = <<>>
    /\ UNCHANGED <<garbage, needed>>

Apply(in, req_frames) ==
    /\ halted = "no"
    /\ UNCHANGED fsvars
    /\ \/ ApplyRejected(in, req_frames)
       \/ ApplyReturns(in, req_frames)
       \/ ApplyFaults(in, req_frames)

DoReset ==
    /\ halted = "no"
    /\ Becomes(Reset(Me))
    /\ last' = [NoCall EXCEPT !.op = "Reset", !.after_reset = TRUE]
    /\ needed' = [limited |-> 0, other |-> 0]
    /\ log' = <<>>
    /\ UNCHANGED <<halted, garbage, calls, loudest>>
    /\ UNCHANGED fsvars

DoPrintStats ==
    /\ halted = "no"
    /\ log' = PrintStats(Me)
    /\ last' = [NoCall EXCEPT !.op = "PrintStats", !.after_reset = JustReset]
    /\ UNCHANGED <<out, prescale, limit_scale, peak, tail, peak_pos_left,
                   peak_pos_right, limited_ms, non_limited_ms, halted, garbage,
                   calls, needed, loudest>>
    /\ UNCHANGED fsvars

\* ------------------------------------------------------------------- inputs
\* One frame (left, right) of samples, in halves: 1000.5 / -1000.5;
\* 32900 (just over the bound) / 1000.5; 1000.5 / -40000.
Pairs == {<<2001, -2001>>, <<65800, 2001>>, <<2001, -80000>>}
\* what the other frames of a block hold: silence, or 101 / -101
Fills == {<<0, 0>>, <<202, -202>>}

\* the block whose frame f holds the pair p and whose other frames hold q
Block(f, p, q) ==
    [i \in Idx |-> IF i = 2 * f THEN p[1] ELSE IF i = 2 * f + 1 THEN p[2]
                   ELSE IF i % 2 = 0 THEN q[1] ELSE q[2]]

Silence == [i \in Idx |-> 0]

\* silence, and the blocks whose first or last frame stands out
Blocks == {Silence} \cup
          {Block(f, p, q) : f \in {0, ArrayFrames - 1}, p \in Pairs, q \in Fills}

\* frame counts: none, one, the whole block, one too many
FrameCounts == {0, 1, ArrayFrames, ArrayFrames + 1}
\* and 2^15, whose double is 0 in 16 bits
WideFrameCounts == FrameCounts \cup {Uint16Mod \div 2}

\* ------------------------------------------------------------ specification
\* the state is that of the limiter me, with nothing called yet
Starts(me) ==
    /\ out = me.out
    /\ prescale = me.prescale
    /\ limit_scale = me.limit_scale
    /\ peak = me.peak
    /\ tail = me.tail
    /\ peak_pos_left = me.peak_pos_left
    /\ peak_pos_right = me.peak_pos_right
    /\ limited_ms = me.limited_ms
    /\ non_limited_ms = me.non_limited_ms
    /\ halted = "no"
    /\ calls = 0
    /\ loudest = [left |-> 0, right |-> 0]
    /\ last = NoCall
    /\ log = <<>>

\* no path has been looked up
NoPaths == files = {} /\ given_path = <<>> /\ posix_path = <<>>

Init ==
    \E scale \in Prescales, g \in Garbage :
       /\ garbage = g
       /\ needed = [limited |-> 0, other |-> 0]
       /\ Starts(Construct(scale, g))
       /\ NoPaths

\* Apply with the frame counts that fit or are one too many, and Reset
Next ==
    \/ \E in \in Blocks, req_frames \in FrameCounts :
          calls < MaxCalls /\ Apply(in, req_frames)
    \/ DoReset

Spec == Init /\ [][Next]_vars

\* the same with a frame count beyond 2^15
NextWide ==
    \/ \E in \in Blocks, req_frames \in WideFrameCounts :
          calls < MaxCalls /\ Apply(in, req_frames)
    \/ DoReset

SpecWide == Init /\ [][NextWide]_vars

\* Release over a longer run of calls: a block that is just over the bound on
\* the left, a quiet one and silence, whole blocks only.
ReleaseBlocks == {Silence, Block(0, <<65800, 2001>>, <<0, 0>>),
                  Block(ArrayFrames - 1, <<2001, -2001>>, <<202, -202>>)}

NextRelease ==
    \/ \E in \in ReleaseBlocks :
          calls < MaxReleaseCalls /\ Apply(in, ArrayFrames)
    \/ DoReset

SpecRelease == Init /\ [][NextRelease]_vars

\* PrintStats after half a minute.  The run starts from the state that LongRun
\* calls Apply(Silence, 0) leave a constructed limiter in: each of them writes
\* the silence to out (but for the last right sample), leaves peak, tail and
\* limit_scale as constructed, and adds one to limited_ms.
LongRun == (ms_per_minute \div 2) - 1

AfterLongSilence(scale, g) ==
    [ApplyBody(Construct(scale, g), Silence, 0, "wrap", [left |-> 0, right |-> 0]).me
       EXCEPT !.limited_ms = LongRun]

InitLong ==
    \E scale \in Prescales, g \in Garbage :
       /\ garbage = g
       /\ needed = [limited |-> 0, other |-> LongRun]
       /\ Starts(AfterLongSilence(scale, g))
       /\ NoPaths

\* every sample at 50% of the bound: 16383.5
HalfLoud == [i \in Idx |-> upper_bound]
LongBlocks == {Silence, HalfLoud, Block(0, <<65800, 2001>>, <<0, 0>>)}

NextLong ==
    \/ \E in \in LongBlocks :
          calls < MaxLongCalls /\ Apply(in, ArrayFrames)
    \/ DoReset
    \/ DoPrintStats

SpecLong == InitLong /\ [][NextLong]_vars

\* FindPeaks over blocks with samples of equal magnitude and with the loudest
\* sample beyond the frames asked for.  Ties: a quiet first frame, then frames
\* of one magnitude and alternating sign.
Ties == [i \in Idx |-> IF i < 2 THEN (IF i % 2 = 0 THEN 202 ELSE -202)
                       ELSE IF (i \div 2) % 2 = i % 2 THEN -2001 ELSE 2001]
PeakBlocks == {Silence, Ties,
               Block(ArrayFrames - 1, <<65800, 2001>>, <<202, -202>>),
               Block(0, <<2001, -80000>>, <<0, 0>>)}
PeakFrameCounts == {0, 1, 2, ArrayFrames}

NextPeaks ==
    \/ \E in \in PeakBlocks, req_frames \in PeakFrameCounts :
          calls < MaxCalls /\ Apply(in, req_frames)
    \/ DoReset

SpecPeaks == Init /\ [][NextPeaks]_vars

\* ------------------------------------------------- misc/fs_utils.cpp: paths
\* A string is a sequence of one-character strings.  The byte value of the
\* characters the model uses:
CharCode == [c \in {"*", ".", "/", "?", "A", "B", "[", "\\", "]", "a", "b", "~"} |->
               CASE c = "*" -> 42 [] c = "." -> 46 [] c = "/" -> 47 [] c = "?" -> 63
                 [] c = "A" -> 65 [] c = "B" -> 66 [] c = "[" -> 91 [] c = "\\" -> 92
                 [] c = "]" -> 93 [] c = "a" -> 97 [] c = "b" -> 98 [] c = "~" -> 126]

isalpha(c) == c \in {"A", "B", "a", "b"}
tolower(c) == IF c = "A" THEN "a" ELSE IF c = "B" THEN "b" ELSE c
toupper(c) == IF c = "a" THEN "A" ELSE IF c = "b" THEN "B" ELSE c

RECURSIVE translate_to_glob_pattern(_)
translate_to_glob_pattern(win_path) ==
    IF win_path = <<>> THEN <<>>
    ELSE LET c == Head(win_path)
             one == IF isalpha(c) THEN <<"[", tolower(c), toupper(c), "]">>
                    ELSE IF c = "\\" THEN <<"/">>
                    ELSE IF c \in {"?", "*", "[", "]"} THEN <<"\\", c>>
                    ELSE <<c>>
         IN  one \o translate_to_glob_pattern(Tail(win_path))

\* glob(3) -------------------------------------------------------------------
\* the index of the "]" that closes the bracket expression opening at pat[1]
\* (a "]" right after the "[" stands for itself), or 0 when there is none
ClosingBracket(pat) ==
    LET found == {i \in 3 .. Len(pat) : pat[i] = "]"}
    IN  IF found = {} THEN 0 ELSE CHOOSE i \in found : \A j \in found : i <= j

\* does the pattern match the whole of str?  Wildcards and bracket
\* expressions never match a "/".
RECURSIVE GlobMatch(_, _)
GlobMatch(pat, str) ==
    IF pat = <<>> THEN str = <<>>
    ELSE IF pat[1] = "*"
    THEN \E k \in 0 .. Len(str) :
            /\ \A i \in 1 .. k : str[i] # "/"
            /\ GlobMatch(Tail(pat), SubSeq(str, k + 1, Len(str)))
    ELSE IF str = <<>> THEN FALSE
    ELSE IF pat[1] = "?" THEN str[1] # "/" /\ GlobMatch(Tail(pat), Tail(str))
    ELSE IF pat[1] = "\\" /\ Len(pat) >= 2
    THEN str[1] = pat[2] /\ GlobMatch(SubSeq(pat, 3, Len(pat)), Tail(str))
    ELSE IF pat[1] = "[" /\ ClosingBracket(pat) # 0
    THEN /\ str[1] # "/"
         /\ \E i \in 2 .. (ClosingBracket(pat) - 1) : pat[i] = str[1]
         /\ GlobMatch(SubSeq(pat, ClosingBracket(pat) + 1, Len(pat)), Tail(str))
    ELSE str[1] = pat[1] /\ GlobMatch(Tail(pat), Tail(str))

\* strcmp(p, q) < 0
RECURSIVE Precedes(_, _)
Precedes(p, q) ==
    IF q = <<>> THEN FALSE
    ELSE IF p = <<>> THEN TRUE
    ELSE IF p[1] # q[1] THEN CharCode[p[1]] < CharCode[q[1]]
    ELSE Precedes(Tail(p), Tail(q))

\* $HOME of the user running the program
Home == <<"/", "b">>

\* the user name of a pattern that begins with "~": what lies between the "~"
\* and the first "/"
TildeUser(pattern) ==
    LET slashes == {i \in 2 .. Len(pattern) : pattern[i] = "/"}
        stop == IF slashes = {} THEN Len(pattern) + 1
                ELSE CHOOSE i \in slashes : \A j \in slashes : i <= j
    IN  SubSeq(pattern, 2, stop - 1)

\* whether glob tests that the directory a bare "~" stands for exists: C
\* libraries differ
TildeDirTested == BOOLEAN

\* glob(pattern, GLOB_TILDE_CHECK, ...): [err, pathv].  A leading "~" is
\* replaced by the home directory; "~user" of a user the system does not know
\* (no account has a name made of brackets or escapes) gives GLOB_NOMATCH.  A
\* pattern that is a bare "~" is answered with the home directory at once.  The
\* paths found are sorted.
glob(pattern, fs, tested) ==
    LET tilde == pattern # <<>> /\ pattern[1] = "~"
        expanded == IF tilde THEN Home \o SubSeq(pattern, 2, Len(pattern))
                    ELSE pattern
        found == IF tilde /\ TildeUser(pattern) # <<>> THEN {}
                 ELSE IF pattern = <<"~">> /\ ~tested THEN {Home}
                 ELSE {p \in fs : GlobMatch(expanded, p)}
        first == CHOOSE p \in found : \A q \in found : p = q \/ Precedes(p, q)
    IN  IF found = {} THEN [err |-> "GLOB_NOMATCH", pathv |-> <<>>]
        ELSE [err |-> "0", pathv |-> <<first>>]

to_posix_path(w, fs, tested) ==
    LET Result(pglob) == IF pglob.err # "0" THEN <<>> ELSE pglob.pathv[1]
    IN  Result(glob(translate_to_glob_pattern(w), fs, tested))

\* the call to_posix_path(w)
DoToPosixPath(w) ==
    /\ given_path' = w
    /\ \E tested \in TildeDirTested :
       \E r \in {to_posix_path(w, files, tested)} : posix_path' = r
    /\ last' = [NoCall EXCEPT !.op = "to_posix_path"]
    /\ UNCHANGED <<out, prescale, limit_scale, peak, tail, peak_pos_left,
                   peak_pos_right, limited_ms, non_limited_ms, halted, garbage,
                   calls, needed, loudest, log, files>>

\* The paths a filesystem of the model may hold, each in the one spelling the
\* lookups of WinPaths can yield (no ".", ".." or empty components): a directory with two entries
\* that differ in case only, names with a glob metacharacter, names that begin
\* with a tilde, and the home directory
PathsThere == {<<"a">>, <<"a", "/", "B">>, <<"a", "/", "b">>, <<"A", "*">>,
               <<"A", "b">>, <<"~">>, <<"~", "a">>, Home}

\* a filesystem holds the directory of each of its paths
Filesystems ==
    {fs \in SUBSET PathsThere :
        \A p \in fs : Len(p) = 3 /\ p[2] = "/" => <<p[1]>> \in fs}

WinPaths == {<<"A", "\\", "B">>, <<"a", "*">>, <<"a", "b">>, <<"a", "?">>,
             <<"~">>, <<"~", "A">>, <<"b">>, <<>>}

InitPath ==
    /\ garbage = 0
    /\ needed = [limited |-> 0, other |-> 0]
    /\ Starts(Construct([left |-> PreDen, right |-> PreDen], 0))
    /\ files \in Filesystems
    /\ given_path = <<>>
    /\ posix_path = <<>>

NextPath == \E w \in WinPaths : DoToPosixPath(w)

SpecPath == InitPath /\ [][NextPath]_vars

\* ------------------------------------------------------------------- claims
\* the last operation was an Apply call that returned
Returned == last.op = "Apply" /\ halted = "no"

\* a value written to the output block, before the cast, lies in [-32768, 32767]
InRange(v) ==
    /\ v.lo >= lower_bound
    /\ v.lo < upper_bound \/ (v.lo = upper_bound /\ v.exact)

\* C1. Bound safety: every value an Apply call writes into the output block,
\* taken before the narrowing cast, lies within [-32768, 32767].
C1_BoundSafety ==
    (Returned /\ last.frames <= ArrayFrames)
    => \A i \in Idx : last.adj[i].w => InRange(last.adj[i])

\* C1 with the call narrowed to prescale 1.0 / 1.0, every frame of the block
\* requested, and the value written by the ramp of a new peak: the claim fails
\* there as well.
C1_BoundSafetyOfRamp ==
    (/\ Returned
     /\ prescale = [left |-> PreDen, right |-> PreDen]
     /\ last.frames = ArrayFrames
     /\ last.branch.left = "new_peak")
    => \A i \in Idx : (last.adj[i].w /\ i % 2 = LEFT /\ i <= last.pos.left)
                          => InRange(last.adj[i])

\* no sample of the blocks handed to Apply so far exceeds the bound after
\* prescale
NeverOver ==
    /\ loudest.left * prescale.left <= upper_bound * SampleDen * PreDen
    /\ loudest.right * prescale.right <= upper_bound * SampleDen * PreDen

\* static_cast<int16_t> of the input sample at index i of the last call
CastOfInput(i) ==
    CastInt16(Affine(0, Sgn(last.in[i]), Abs(last.in[i]), 1, SampleDen), last.ub)

\* C2. Pass-through: if no input sample times prescale ever exceeded the bound,
\* then after Apply(in, n) every output sample at an index below 2n equals the
\* truncating cast of the input sample at that index.
C2_PassThrough ==
    (Returned /\ NeverOver /\ last.frames <= ArrayFrames)
    => \A i \in Idx : i < 2 * last.frames => out[i] = CastOfInput(i)

\* C3. Tail invariant: after Apply(in, n) with 0 < n <= array_frames the tail
\* holds the values this call wrote to output positions 2(n-1) and 2(n-1)+1;
\* after Apply(in, 0) the tail is {0, 0}.
C3_TailIsLastWritten ==
    (Returned /\ last.frames <= ArrayFrames)
    => IF last.frames = 0
       THEN tail = [left |-> 0, right |-> 0]
       ELSE LET offset == (last.frames - 1) * 2
            IN  /\ last.adj[offset].w
                /\ last.adj[offset + 1].w
                /\ tail.left = CastInt16(last.adj[offset], last.ub)
                /\ tail.right = CastInt16(last.adj[offset + 1], last.ub)

\* the call of the last step was Apply, and it returned
ApplyStep == last'.op = "Apply" /\ halted' = "no" /\ calls' = calls + 1

\* one call's effect on a tracked peak p when the call brings no new peak
Relaxes(p, q) ==
    /\ q <= p
    /\ p > upper_bound * FixedOne => q = p - release_amplitude
    /\ p <= upper_bound * FixedOne => q = p

\* C4. Monotone release: an Apply call that brings no new peak on a channel
\* never increases that channel's tracked peak; while the peak is over the
\* bound the call lowers it by exactly one step of bound * 0.002709201 (so it
\* is at or below the bound after finitely many calls), and once it is at or
\* below the bound the call leaves it unchanged.
C4_MonotoneRelease ==
    [][ApplyStep =>
          /\ last'.branch.left # "new_peak" => Relaxes(peak.left, peak'.left)
          /\ last'.branch.right # "new_peak" => Relaxes(peak.right, peak'.right)]_vars

\* an overage was released to below the bound and the next call left it there
C4_Released ==
    /\ Returned
    /\ last.branch.left = "pass"
    /\ peak.left > FixedOne
    /\ peak.left <= upper_bound * FixedOne

\* no sample of the block in exceeds the bound after prescale
NonOveraging(in) ==
    /\ BlockPeak(in, LEFT) * prescale.left <= upper_bound * SampleDen * PreDen
    /\ BlockPeak(in, RIGHT) * prescale.right <= upper_bound * SampleDen * PreDen

\* a freshly constructed instance given the block of the last call
FreshApply ==
    ApplyBody(Construct(prescale, garbage), last.in, last.frames, last.ub,
              [left |-> 0, right |-> 0]).me

\* C5. Reset idempotence: Reset() followed by Apply of a non-overaging block of
\* n frames yields the same first 2n output samples, tracked peaks and counters
\* as a freshly constructed instance given that block.
C5_ResetIdempotence ==
    (Returned /\ last.after_reset /\ last.frames <= ArrayFrames
              /\ NonOveraging(last.in))
    => /\ \A i \in Idx : i < 2 * last.frames => out[i] = FreshApply.out[i]
       /\ peak = FreshApply.peak
       /\ limited_ms = FreshApply.limited_ms
       /\ non_limited_ms = FreshApply.non_limited_ms

\* C6. Precondition rejection: every Apply(in, frames) with frames * 2 above
\* the capacity is rejected by the assertion.
C6_OversizeRejected ==
    (last.op = "Apply" /\ last.frames * 2 > Capacity) => halted = "assert"

\* C7. Reset effect and frame: Reset() sets both tracked peaks to exactly 1 and
\* both counters to 0, and leaves the tail unchanged.
C7_ResetEffect ==
    [][last'.op = "Reset" =>
          /\ peak' = [left |-> FixedOne, right |-> FixedOne]
          /\ limited_ms' = 0
          /\ non_limited_ms' = 0
          /\ tail' = tail]_vars

\* Reset has acted on a limiter that had limited the left channel and holds a
\* tail
C7_ResetAfterLimiting ==
    /\ last.op = "Reset"
    /\ tail.left # 0
    /\ limit_scale.left # <<1, 1>>
    /\ calls > 0

\* C8. Limiting-time statistics: limited_ms is the number of Apply calls since
\* the last Reset (or construction) in which a channel needed limiting, and
\* non_limited_ms the number of the other Apply calls.
C8_LimitingTimeStatistics ==
    /\ limited_ms = needed.limited
    /\ non_limited_ms = needed.other

HasLine(msg) == \E i \in 1 .. Len(log) : log[i].msg = msg

\* C9. Louder suggestion: after at least 30000 Apply calls with prescale {1, 1}
\* whose loudest input sample reached 50% of the output bound, PrintStats
\* reports the peak and emits the louder-mix suggestion.
C9_LouderSuggestion ==
    (/\ last.op = "PrintStats"
     /\ limited_ms + non_limited_ms >= 30000
     /\ prescale = [left |-> PreDen, right |-> PreDen]
     /\ 2 * Max(loudest.left, loudest.right) = upper_bound * SampleDen)
    => HasLine("peak") /\ HasLine("louder")

C11_PeakFloor ==
    /\ [](peak.left >= FixedOne /\ peak.right >= FixedOne)
    /\ [][ApplyStep =>
            /\ (last'.branch.left # "new_peak" /\ peak.left <= upper_bound * FixedOne)
                  => peak'.left = peak.left
            /\ (last'.branch.right # "new_peak" /\ peak.right <= upper_bound * FixedOne)
                  => peak'.right = peak.right]_vars

\* a call has passed over a left peak released to below the bound while the
\* right peak never left the floor
C11_AtOrBelowBound ==
    /\ Returned
    /\ ~last.after_reset
    /\ last.branch = [left |-> "pass", right |-> "pass"]
    /\ peak.right = FixedOne
    /\ peak.left > FixedOne
    /\ peak.left < upper_bound * FixedOne

\* w with each backslash replaced by "/"
Slashed(w) == [i \in 1 .. Len(w) |-> IF w[i] = "\\" THEN "/" ELSE w[i]]

EqualUpToCase(p, q) ==
    Len(p) = Len(q) /\ \A i \in 1 .. Len(p) : tolower(p[i]) = tolower(q[i])

\* the existing paths that equal w, backslashes replaced, up to letter case
Resolutions(w) == {p \in files : EqualUpToCase(p, Slashed(w))}

NewPeak(side) == Returned /\ last.frames <= ArrayFrames /\ last.branch[side] = "new_peak"

\* the value at output index i has the magnitude of the bound, within truncation
AtTheBound(i) ==
    /\ last.adj[i].w
    /\ Abs(Trunc(last.adj[i])) \in {upper_bound - 1, upper_bound}

\* C13. New-peak ramp hits the bound: whenever a channel takes the new-peak
\* branch, the value written at the peak position has the magnitude of the
\* bound (within truncation), for every previous tail, and the tracked peak
\* becomes local (less the release step of the same call).
C13_RampHitsBound ==
    \A side \in {"left", "right"} :
       NewPeak(side) => /\ AtTheBound(last.pos[side])
                        /\ peak[side] = Released(last.local[side])

\* the output indices of a side: even for left, odd for right
Channel(side) == IF side = "left" THEN LEFT ELSE RIGHT
OfChannel(side) == {i \in Idx : i % 2 = Channel(side)}

\* (int16_t) (in[i] * num / den) for the block of the call l, num and den in
\* thousandths
ScaledOf(l, i, num, den) ==
    CastInt16(Affine(0, Sgn(l.in[i]), Abs(l.in[i]), num, den * SampleDen), l.ub)

\* the call l wrote v to output index i, and nothing else after it
WroteOf(l, i, v) == l.adj[i].w /\ CastInt16(l.adj[i], l.ub) = v

\* the same of the last call
Scaled(i, num, den) == ScaledOf(last, i, num, den)
Wrote(i, v) == WroteOf(last, i, v)

\* C14. Post-peak scalar: in the new-peak branch, on the left and on the right
\* channel alike, every sample of the channel after the peak position within
\* the requested frames is written to the same output index as
\* trunc(in * bound / local).
C14_PostPeakScalar ==
    \A side \in {"left", "right"} :
       NewPeak(side) =>
          \A i \in OfChannel(side) :
             (i > last.pos[side] /\ i < 2 * last.frames)
                => Wrote(i, Scaled(i, upper_bound * FixedOne, last.local[side]))

\* C15. Still-over-bound scaling: when a call brings no new peak on a channel
\* whose tracked peak exceeds the bound, every output sample of that channel in
\* the requested n frames, for every n up to the block size, is
\* trunc(in * bound / existing), and the tracked peak changes by the release
\* step only.
C15_StillOverScaling ==
    [][ApplyStep =>
          \A side \in {"left", "right"} :
             (last'.branch[side] = "still_over" /\ last'.frames <= ArrayFrames)
             => /\ peak'[side] = Released(peak[side])
                /\ \A i \in OfChannel(side) :
                      i < 2 * last'.frames
                      => WroteOf(last', i,
                                 ScaledOf(last', i, upper_bound * FixedOne,
                                          peak[side]))]_vars

\* C16. Cross-block continuity: if a call takes the new-peak branch on a
\* channel whose first input sample is 0, the first output sample of that
\* channel equals the tail recorded at the end of the previous call, which is
\* the last output sample of that channel among the frames that call was asked
\* for.
C16_CrossBlockContinuity ==
    [][ApplyStep =>
          \A side \in {"left", "right"} :
             (last'.branch[side] = "new_peak" /\ last'.in[Channel(side)] = 0)
             => /\ WroteOf(last', Channel(side), tail[side])
                /\ out'[Channel(side)] = tail[side]
                /\ (Returned /\ last.frames > 0)
                      => tail[side] = out[2 * (last.frames - 1) + Channel(side)]]_vars

\* a ramp to a new left peak has started from a non-zero tail with a zero
\* first sample
C16_RampFromTail ==
    /\ Returned
    /\ last.branch.left = "new_peak"
    /\ last.in[LEFT] = 0
    /\ last.add.left # 0
    /\ out[LEFT] = last.add.left

\* the samples of a side among the first n frames of a block
FirstOf(side, n) == {i \in OfChannel(side) : i < 2 * n}

\* the largest |sample| of a side among the first n frames of the block in
MaxAbs(in, side, n) ==
    IF n = 0 THEN 0
    ELSE LET vals == {Abs(in[i]) : i \in FirstOf(side, n)}
         IN  CHOOSE m \in vals : \A v \in vals : v <= m

\* the first position of a side where the block in attains the magnitude m
FirstAt(in, side, n, m) ==
    CHOOSE i \in FirstOf(side, n) :
       /\ Abs(in[i]) = m
       /\ \A j \in FirstOf(side, n) : Abs(in[j]) = m => i <= j

\* C17 as stated. Peak tracking: for every block and frame count n > 0,
\* FindPeaks hands Triage, for each channel, the largest magnitude among the
\* channel's first n samples and the position of the first sample attaining it.
C17_PeakTracking ==
    \A side \in {"left", "right"} :
       (Returned /\ last.frames > 0 /\ last.frames <= ArrayFrames)
       => /\ last.local[side]
                = Prescaled(MaxAbs(last.in, side, last.frames), prescale[side])
          /\ last.pos[side]
                = FirstAt(last.in, side, last.frames,
                          MaxAbs(last.in, side, last.frames))

\* the position FindPeaks holds for a side
PeakPos(side) == IF side = "left" THEN peak_pos_left ELSE peak_pos_right

\* C17, amended. FindPeaks hands Triage, for each channel, the largest
\* magnitude among the channel's first n samples; the position it hands is that
\* of the first sample attaining it when that magnitude is not 0, and the
\* position of the previous call (nullptr at first) when it is 0 or n is 0.
\* Samples beyond the first n frames affect neither.
C17_PeakTrackingOfSound ==
    [][(ApplyStep /\ last'.frames <= ArrayFrames) =>
          \A side \in {"left", "right"} :
             /\ last'.local[side]
                   = Prescaled(MaxAbs(last'.in, side, last'.frames), prescale[side])
             /\ last'.pos[side] = PeakPos(side)'
             /\ IF MaxAbs(last'.in, side, last'.frames) > 0
                THEN last'.pos[side]
                        = FirstAt(last'.in, side, last'.frames,
                                  MaxAbs(last'.in, side, last'.frames))
                ELSE PeakPos(side)' = PeakPos(side)]_vars

\* a call over a silent left channel was handed the position of an earlier
\* call's peak
C17_StalePosition ==
    /\ Returned
    /\ last.frames > 0
    /\ MaxAbs(last.in, "left", last.frames) = 0
    /\ last.pos.left # Null

\* C18. No degenerate polynomial: whenever a channel takes the new-peak branch,
\* the tail lies in the 16-bit range, local exceeds the bound and local - tail
\* is strictly positive; and the divisor of every bound / peak division (kept
\* as the denominator of limit_scale) is strictly positive, and above the bound
\* in the branches that divide.
C18_NoDegeneratePolynomial ==
    \A side \in {"left", "right"} :
       /\ limit_scale[side][2] > 0
       /\ Returned =>
             /\ last.branch[side] = "new_peak"
                   => /\ InInt16(last.add[side])
                      /\ last.local[side] > upper_bound * FixedOne
                      /\ last.local[side] - last.add[side] * FixedOne > 0
                      /\ limit_scale[side][2] = last.local[side]
             /\ last.branch[side] = "still_over"
                   => limit_scale[side][2] > upper_bound * FixedOne

\* a new left peak has followed a tail that sits at the bound
C18_TailAtTheBound ==
    /\ Returned
    /\ last.branch.left = "new_peak"
    /\ last.add.left = upper_bound

\* C19. Channel isolation: within one Apply call every output position is
\* written for its own channel only (even indices for the left, odd for the
\* right), so that triaging the right channel never overwrites a left sample
\* written earlier in the call; and a channel that takes no new peak keeps its
\* tracked peak, but for its own release step, whatever the other channel does.
C19_ChannelIsolation ==
    [][ApplyStep =>
          /\ \A i \in Idx : last'.adj[i].w => last'.adj[i].by = i % 2
          /\ \A side \in {"left", "right"} :
                last'.branch[side] # "new_peak" => peak'[side] = Released(peak[side])]_vars

=============================================================================
